---------------------------- MODULE Spec2Model ----------------------------
(***************************************************************************)
(* Click Timer extension: the content script's ClickTimer (src/content.js) *)
(* with chrome.storage.local as a request queue served in issue order.     *)
(*                                                                         *)
(* Optional values (null / undefined in the source) are sequences of       *)
(* length at most one: <<>> is absent, <<v>> is the value v.               *)
(* Text is a sequence of one-character strings.                            *)
(***************************************************************************)
EXTENDS Integers, Sequences, FiniteSets, TLC

VARIABLES
    \* ---- ClickTimer fields (content.js:5-13)
    lastClickTime,      \* <<>> or <<ms>>
    clickCount,         \* Nat
    isEnabled,          \* BOOLEAN
    visualIndicator,    \* <<>> or <<textContent>>
    indicatorTimeout,   \* <<>> or <<id>> of the timer set by showVisualFeedback
    \* ---- the page the tracker draws on
    bodyIndicators,     \* texts of the .click-timer-indicator elements in body
    timers,             \* pending setTimeout callbacks; the id is the due time
    \* ---- loadPersistedData in flight (content.js:228-271)
    loadState,          \* "requested" | "fetched" | "done"
    loadData,           \* result[this.storageKey] while "fetched"
    \* ---- chrome.storage.local
    storageAvailable,   \* chrome && chrome.storage && chrome.storage.local
    stored,             \* <<>> or <<record>> under 'clickTimerData'
    storeQ,             \* requests issued and not yet completed, oldest first
    \* ---- environment
    now,                \* Date.now()
    ticks,              \* clock advances so far
    navs,               \* page contexts created after the first
    \* ---- the content script in its document (content.js:306-331)
    readyState,         \* document.readyState
    listeners,          \* document / window handlers the script registered
    clickTimer,         \* the module variable `clickTimer` is set
    trackers,           \* ClickTimer objects constructed (one click listener each)
    loadCalls,          \* loadPersistedData calls
    \* ---- the popup (popup.js:109-123)
    popupReset,         \* handleReset: "idle" | "removing" | "removed"
    \* ---- PopupController (popup.js:5-13, 39-77, 125-134)
    popupIsEnabled,     \* this.isEnabled of the popup
    popupClickCount,    \* this.clickCount of the popup
    popupFetch,         \* getCurrentTabStats: "storage" | "read" | "script"
                        \*                     | "stats" | "done"
    popupData,          \* the value an awaited call of the popup resolves to
    popupCmds,          \* enable / disable commands on their way to the page
    popupToggles,       \* handleToggle calls
    \* ---- history of the run (read by the properties only)
    clickAt,            \* time of the latest accepted click
    since,              \* "reset" / "load" / "construct" ran since that click
    userDisabled        \* disable() ran and enable() has not run since

mem    == <<lastClickTime, clickCount, isEnabled>>
ui     == <<visualIndicator, indicatorTimeout, bodyIndicators, timers>>
loadv  == <<loadState, loadData>>
store  == <<storageAvailable, stored, storeQ>>
env    == <<now, ticks, navs>>
page   == <<readyState, listeners, clickTimer, trackers, loadCalls>>
hist   == <<clickAt, since, userDisabled>>
popupSt == <<popupIsEnabled, popupClickCount, popupFetch, popupData,
             popupToggles>>
popupv == <<popupSt, popupCmds>>
vars   == <<mem, ui, loadv, store, env, page, popupReset, popupv, hist>>

---------------------------------------------------------------------------
(* Bounds of the model *)
MaxClicks  == 2
MaxPending == 1
MaxWrites  == 2
MaxTicks   == 1
MaxNavs    == 1
MaxToggles == 2
StartTime  == 1000000
InnerWidth  == 100
InnerHeight == 80

(* Constants of the program *)
pageNavigationThreshold == 5000
MaxClickAge             == 300000
IndicatorDuration       == 2000
ScrollbarMargin         == 20

Absent    == <<>>
Some(v)   == <<v>>
Has(o)    == o # <<>>
Val(o)    == o[1]

\* the clock advances by one of these amounts
Steps == {127, 300000}

---------------------------------------------------------------------------
(* Text: template literals and Number.prototype.toFixed *)

Digit == <<"0", "1", "2", "3", "4", "5", "6", "7", "8", "9">>
DigitChar(d) == Digit[d + 1]
DigitVal(c)  == CHOOSE d \in 0..9 : Digit[d + 1] = c

RECURSIVE Decimal(_)
Decimal(n) ==
    IF n < 10 THEN <<DigitChar(n)>>
    ELSE Decimal(n \div 10) \o <<DigitChar(n % 10)>>

Abs(i) == IF i < 0 THEN 0 - i ELSE i

\* (ms / 1000).toFixed(3) for an integer number of milliseconds
ToFixed3(ms) ==
    LET a == Abs(ms) IN
    (IF ms < 0 THEN <<"-">> ELSE <<>>)
      \o Decimal(a \div 1000) \o <<".">>
      \o <<DigitChar((a \div 100) % 10), DigitChar((a \div 10) % 10),
           DigitChar(a % 10)>>

FirstClickMessage == <<"First click recorded">>

\* updateVisualFeedback: `${timeDiff.toFixed(3)}s`
IntervalMessage(ms) == ToFixed3(ms) \o <<"s">>

\* variant: the count as it was before the click
IndicatorTextOldCount(count, message) ==
    <<"#">> \o Decimal(count - 1) \o <<":", " ">> \o message

\* createVisualIndicator: `#${clickCount}: ${message}`
IndicatorText(count, message) ==
    <<"#">> \o Decimal(count) \o <<":", " ">> \o message

---------------------------------------------------------------------------
(* The persisted record and savePersistedData *)

Record(lct, count, enabled, t) ==
    [lastClickTime |-> lct, clickCount |-> Some(count),
     isEnabled |-> Some(enabled), timestamp |-> Some(t)]

\* variant: the write is put in front of the writes still in flight
savePersistedDataJumpsQueue(q, lct, count, enabled) ==
    IF storageAvailable
    THEN <<[op |-> "set", data |-> Record(lct, count, enabled, now)]>> \o q
    ELSE q

\* savePersistedData up to its await: the record is built from the fields as
\* they are when it is called, and the set request is issued
savePersistedData(q, lct, count, enabled) ==
    IF storageAvailable
    THEN Append(q, [op |-> "set", data |-> Record(lct, count, enabled, now)])
    ELSE q

\* bound of the model: at most MaxPending requests are in flight
CanIssue == ~storageAvailable \/ Len(storeQ) < MaxPending

Fields == [lastClickTime |-> lastClickTime, clickCount |-> clickCount,
           isEnabled |-> isEnabled]

---------------------------------------------------------------------------
(* The display indicator *)

\* seq without its first element equal to x
RemoveOne(seq, x) ==
    IF \E i \in 1..Len(seq) : seq[i] = x
    THEN LET i == CHOOSE k \in 1..Len(seq) :
                      seq[k] = x /\ \A j \in 1..(k - 1) : seq[j] # x
         IN  SubSeq(seq, 1, i - 1) \o SubSeq(seq, i + 1, Len(seq))
    ELSE seq

Contains(seq, x) == \E i \in 1..Len(seq) : seq[i] = x

Ui == [visualIndicator |-> visualIndicator,
       indicatorTimeout |-> indicatorTimeout,
       bodyIndicators |-> bodyIndicators,
       timers |-> timers]

SetUi(u) ==
    /\ visualIndicator' = u.visualIndicator
    /\ indicatorTimeout' = u.indicatorTimeout
    /\ bodyIndicators' = u.bodyIndicators
    /\ timers' = u.timers

\* removeVisualIndicator on the display u: clearTimeout of the timer the
\* field names, and the element the field names taken out of its parent
AfterRemove(u) ==
    LET attached == Has(u.visualIndicator)
                    /\ Contains(u.bodyIndicators, Val(u.visualIndicator))
    IN  [visualIndicator |->
            IF attached THEN Absent ELSE u.visualIndicator,
         indicatorTimeout |-> Absent,
         bodyIndicators |->
            IF attached
            THEN RemoveOne(u.bodyIndicators, Val(u.visualIndicator))
            ELSE u.bodyIndicators,
         timers |->
            IF Has(u.indicatorTimeout)
            THEN RemoveOne(u.timers, Val(u.indicatorTimeout))
            ELSE u.timers]

\* createVisualIndicator and the setTimeout of showVisualFeedback on u
AfterCreate(u, message, count) ==
    [visualIndicator |-> Some(IndicatorText(count, message)),
     indicatorTimeout |-> Some(now + IndicatorDuration),
     bodyIndicators |-> Append(u.bodyIndicators, IndicatorText(count, message)),
     timers |-> Append(u.timers, now + IndicatorDuration)]

removeVisualIndicator == SetUi(AfterRemove(Ui))

\* variant: the indicator on display is left in the page
showVisualFeedbackStacks(message, count) ==
    SetUi(AfterCreate([AfterRemove(Ui) EXCEPT
                           !.bodyIndicators = bodyIndicators],
                      message, count))

\* variant: the pending auto-hide timer is not cleared
showVisualFeedbackKeepsTimer(message, count) ==
    SetUi(AfterCreate([AfterRemove(Ui) EXCEPT !.timers = timers],
                      message, count))

\* showVisualFeedback: remove the current indicator and its timer, create
\* the new indicator, start the auto-hide timer
showVisualFeedback(message, count) ==
    SetUi(AfterCreate(AfterRemove(Ui), message, count))

---------------------------------------------------------------------------
(* handleClick *)

\* pointer positions: clear of both margins, and around the edge of each
Positions ==
    {<<x, InnerHeight - ScrollbarMargin - 1>> :
        x \in {InnerWidth - ScrollbarMargin - 1, InnerWidth - ScrollbarMargin,
               InnerWidth - ScrollbarMargin + 1}}
    \cup
    {<<InnerWidth - ScrollbarMargin - 1, y>> :
        y \in {InnerHeight - ScrollbarMargin, InnerHeight - ScrollbarMargin + 1}}

\* where the target of a click can be: an element of the page, the indicator
\* (or a descendant), an element outside document.body, a detached node
Targets ==
    {[inBody |-> TRUE,  inHtml |-> TRUE,  inIndicator |-> FALSE],
     [inBody |-> TRUE,  inHtml |-> TRUE,  inIndicator |-> TRUE],
     [inBody |-> FALSE, inHtml |-> TRUE,  inIndicator |-> FALSE],
     [inBody |-> FALSE, inHtml |-> FALSE, inIndicator |-> FALSE]}

PageElement == [inBody |-> TRUE, inHtml |-> TRUE, inIndicator |-> FALSE]
ClearPosition ==
    <<InnerWidth - ScrollbarMargin - 1, InnerHeight - ScrollbarMargin - 1>>

\* a click event: its target, and the pointer position (each position on an
\* element of the page, each target at the clear position)
Events ==
    {[target |-> PageElement, clientX |-> p[1], clientY |-> p[2]] :
        p \in Positions}
    \cup
    {[target |-> t, clientX |-> ClearPosition[1], clientY |-> ClearPosition[2]] :
        t \in Targets}

\* variant: the indicator is not looked for
isValidPageClickOnIndicator(e) ==
    IF ~e.target.inBody THEN FALSE
    ELSE LET isScrollbarClick == \/ e.clientX > InnerWidth - ScrollbarMargin
                                 \/ e.clientY > InnerHeight - ScrollbarMargin
             isBrowserUI == ~e.target.inHtml
         IN  ~isScrollbarClick /\ ~isBrowserUI

isValidPageClick(e) ==
    IF ~e.target.inBody THEN FALSE
    ELSE LET isScrollbarClick == \/ e.clientX > InnerWidth - ScrollbarMargin
                                 \/ e.clientY > InnerHeight - ScrollbarMargin
             isBrowserUI == ~e.target.inHtml
         IN  IF e.target.inIndicator THEN FALSE
             ELSE ~isScrollbarClick /\ ~isBrowserUI

Accepted(e) == isEnabled /\ isValidPageClick(e)

\* variant: the timestamp is updated before the difference is taken
ClickUpdateStampFirst(cur, currentTime) ==
    IF Has(cur.lastClickTime)
    THEN [clickCount    |-> cur.clickCount + 1,
          message       |-> IntervalMessage(currentTime - currentTime),
          lastClickTime |-> Some(currentTime)]
    ELSE [clickCount    |-> 1,
          message       |-> FirstClickMessage,
          lastClickTime |-> Some(currentTime)]

\* lines 52-69: the count, the message and the timestamp of an accepted click
\* at currentTime, from the fields cur
ClickUpdate(cur, currentTime) ==
    IF Has(cur.lastClickTime)
    THEN [clickCount    |-> cur.clickCount + 1,
          message       |-> IntervalMessage(currentTime - Val(cur.lastClickTime)),
          lastClickTime |-> Some(currentTime)]
    ELSE [clickCount    |-> 1,
          message       |-> FirstClickMessage,
          lastClickTime |-> Some(currentTime)]

handleClick(e) ==
    IF ~Accepted(e)
    THEN UNCHANGED vars
    ELSE LET u == ClickUpdate(Fields, now) IN
         /\ u.clickCount <= MaxClicks
         /\ clickCount' = u.clickCount
         /\ lastClickTime' = u.lastClickTime
         /\ showVisualFeedback(u.message, u.clickCount)
         /\ storeQ' = savePersistedData(storeQ, u.lastClickTime, u.clickCount,
                                        isEnabled)
         /\ clickAt' = Some(now)
         /\ since' = {}
         /\ UNCHANGED <<isEnabled, loadv, storageAvailable, stored, env,
                        page, popupReset, popupv, userDisabled>>

---------------------------------------------------------------------------
(* Commands *)

\* the popup's commands in flight once the page has run command c: the
\* oldest one, if it is c, has been delivered
AfterCommand(c) ==
    IF popupCmds # <<>> /\ Head(popupCmds) = c
    THEN Tail(popupCmds)
    ELSE popupCmds

\* variant: the count is cleared and the timestamp is not
resetTimerKeepsTimestamp ==
    /\ clickCount' = 0
    /\ removeVisualIndicator
    /\ storeQ' = savePersistedData(storeQ, lastClickTime, 0, isEnabled)
    /\ since' = since \cup {"reset"}
    /\ popupReset' = IF popupReset = "removed" THEN "idle" ELSE popupReset
    /\ UNCHANGED <<lastClickTime, isEnabled, loadv, storageAvailable, stored,
                   env, page, clickAt, userDisabled>>
    /\ UNCHANGED popupv

\* variant: the cleared state is not saved
resetTimerWithoutSave ==
    /\ lastClickTime' = Absent
    /\ clickCount' = 0
    /\ removeVisualIndicator
    /\ since' = since \cup {"reset"}
    /\ popupReset' = IF popupReset = "removed" THEN "idle" ELSE popupReset
    /\ UNCHANGED <<isEnabled, loadv, store, env, page, clickAt, userDisabled>>
    /\ UNCHANGED popupv

\* resetTimer; the popup calls it as the last step of its handleReset
resetTimer ==
    /\ lastClickTime' = Absent
    /\ clickCount' = 0
    /\ removeVisualIndicator
    /\ storeQ' = savePersistedData(storeQ, Absent, 0, isEnabled)
    /\ since' = since \cup {"reset"}
    /\ popupReset' = IF popupReset = "removed" THEN "idle" ELSE popupReset
    /\ UNCHANGED <<isEnabled, loadv, storageAvailable, stored, env, page,
                   clickAt, userDisabled>>
    /\ UNCHANGED popupv

\* variant: enabling starts a new measurement
enableClearsTimestamp ==
    /\ isEnabled' = TRUE
    /\ lastClickTime' = Absent
    /\ storeQ' = savePersistedData(storeQ, Absent, clickCount, TRUE)
    /\ userDisabled' = FALSE
    /\ popupCmds' = AfterCommand("enable")
    /\ UNCHANGED <<clickCount, ui, loadv, storageAvailable, stored, env,
                   page, popupReset, popupSt, clickAt, since>>

enable ==
    /\ isEnabled' = TRUE
    /\ storeQ' = savePersistedData(storeQ, lastClickTime, clickCount, TRUE)
    /\ userDisabled' = FALSE
    /\ popupCmds' = AfterCommand("enable")
    /\ UNCHANGED <<lastClickTime, clickCount, ui, loadv, storageAvailable,
                   stored, env, page, popupReset, popupSt, clickAt, since>>

\* variant: the display is left as it is
disableKeepsIndicator ==
    /\ isEnabled' = FALSE
    /\ storeQ' = savePersistedData(storeQ, lastClickTime, clickCount, FALSE)
    /\ userDisabled' = TRUE
    /\ popupCmds' = AfterCommand("disable")
    /\ UNCHANGED <<lastClickTime, clickCount, ui, loadv, storageAvailable,
                   stored, env, page, popupReset, popupSt, clickAt, since>>

disable ==
    /\ isEnabled' = FALSE
    /\ removeVisualIndicator
    /\ storeQ' = savePersistedData(storeQ, lastClickTime, clickCount, FALSE)
    /\ userDisabled' = TRUE
    /\ popupCmds' = AfterCommand("disable")
    /\ UNCHANGED <<lastClickTime, clickCount, loadv, storageAvailable, stored,
                   env, page, popupReset, popupSt, clickAt, since>>

\* a timer set by showVisualFeedback is due and its callback runs
\* removeVisualIndicator
IndicatorTimeoutFires ==
    \E i \in 1..Len(timers) :
        /\ now >= timers[i]
        /\ LET rest == SubSeq(timers, 1, i - 1)
                          \o SubSeq(timers, i + 1, Len(timers))
           IN  SetUi(AfterRemove([Ui EXCEPT !.timers = rest]))
        /\ UNCHANGED <<mem, loadv, store, env, page, popupReset, popupv>>
        /\ UNCHANGED hist

---------------------------------------------------------------------------
(* loadPersistedData *)

Truthy(o) == Has(o) /\ Val(o) # 0

\* variants of Reconcile: the save age is not looked at
ReconcileIgnoresSaveAge(data, t) ==
    LET timeDiffFromLoad == t - Val(data.lastClickTime)
    IN  [lastClickTime |->
            IF Truthy(data.lastClickTime)
            THEN IF timeDiffFromLoad > 0 /\ timeDiffFromLoad < MaxClickAge
                 THEN data.lastClickTime
                 ELSE Absent
            ELSE Absent,
         clickCount |->
            IF Truthy(data.clickCount) THEN Val(data.clickCount) ELSE 0,
         isEnabled |->
            IF Has(data.isEnabled) THEN Val(data.isEnabled) ELSE TRUE]

\* the click age is not looked at
ReconcileIgnoresClickAge(data, t) ==
    LET timeSinceLastSave ==
            t - (IF Truthy(data.timestamp) THEN Val(data.timestamp) ELSE 0)
    IN  [lastClickTime |->
            IF Truthy(data.lastClickTime)
               /\ timeSinceLastSave < pageNavigationThreshold
            THEN data.lastClickTime
            ELSE Absent,
         clickCount |->
            IF Truthy(data.clickCount) THEN Val(data.clickCount) ELSE 0,
         isEnabled |->
            IF Has(data.isEnabled) THEN Val(data.isEnabled) ELSE TRUE]

\* isEnabled is read as `data.isEnabled || true`
ReconcileEnabledOrTrue(data, t) ==
    LET timeSinceLastSave ==
            t - (IF Truthy(data.timestamp) THEN Val(data.timestamp) ELSE 0)
        timeDiffFromLoad == t - Val(data.lastClickTime)
    IN  [lastClickTime |->
            IF Truthy(data.lastClickTime)
               /\ timeSinceLastSave < pageNavigationThreshold
            THEN IF timeDiffFromLoad > 0 /\ timeDiffFromLoad < MaxClickAge
                 THEN data.lastClickTime
                 ELSE Absent
            ELSE Absent,
         clickCount |->
            IF Truthy(data.clickCount) THEN Val(data.clickCount) ELSE 0,
         isEnabled |-> TRUE]

\* the record's clickCount is not read
ReconcileForgetsCount(data, t) ==
    LET timeSinceLastSave ==
            t - (IF Truthy(data.timestamp) THEN Val(data.timestamp) ELSE 0)
        timeDiffFromLoad == t - Val(data.lastClickTime)
    IN  [lastClickTime |->
            IF Truthy(data.lastClickTime)
               /\ timeSinceLastSave < pageNavigationThreshold
            THEN IF timeDiffFromLoad > 0 /\ timeDiffFromLoad < MaxClickAge
                 THEN data.lastClickTime
                 ELSE Absent
            ELSE Absent,
         clickCount |-> 0,
         isEnabled |->
            IF Has(data.isEnabled) THEN Val(data.isEnabled) ELSE TRUE]

\* the record's timestamp is adopted in place of its lastClickTime
ReconcileAdoptsSavedAt(data, t) ==
    LET timeSinceLastSave ==
            t - (IF Truthy(data.timestamp) THEN Val(data.timestamp) ELSE 0)
        timeDiffFromLoad == t - Val(data.lastClickTime)
    IN  [lastClickTime |->
            IF Truthy(data.lastClickTime)
               /\ timeSinceLastSave < pageNavigationThreshold
            THEN IF timeDiffFromLoad > 0 /\ timeDiffFromLoad < MaxClickAge
                 THEN data.timestamp
                 ELSE Absent
            ELSE Absent,
         clickCount |->
            IF Truthy(data.clickCount) THEN Val(data.clickCount) ELSE 0,
         isEnabled |->
            IF Has(data.isEnabled) THEN Val(data.isEnabled) ELSE TRUE]

\* lines 239-259: the fields after reconciliation with the record data at
\* time t (Date.now())
Reconcile(data, t) ==
    LET timeSinceLastSave ==
            t - (IF Truthy(data.timestamp) THEN Val(data.timestamp) ELSE 0)
        timeDiffFromLoad == t - Val(data.lastClickTime)
    IN  [lastClickTime |->
            IF Truthy(data.lastClickTime)
               /\ timeSinceLastSave < pageNavigationThreshold
            THEN IF timeDiffFromLoad > 0 /\ timeDiffFromLoad < MaxClickAge
                 THEN data.lastClickTime
                 ELSE Absent
            ELSE Absent,
         clickCount |->
            IF Truthy(data.clickCount) THEN Val(data.clickCount) ELSE 0,
         isEnabled |->
            IF Has(data.isEnabled) THEN Val(data.isEnabled) ELSE TRUE]

\* variant: a record is not applied once a click has set lastClickTime
loadPersistedDataResumeKeepsClicks ==
    /\ loadState = "fetched"
    /\ loadState' = "done"
    /\ loadData' = Absent
    /\ IF Has(loadData) /\ ~Has(lastClickTime)
       THEN LET r == Reconcile(Val(loadData), now) IN
            /\ lastClickTime' = r.lastClickTime
            /\ clickCount' = r.clickCount
            /\ isEnabled' = r.isEnabled
            /\ since' = since \cup {"load"}
       ELSE UNCHANGED <<mem, since>>
    /\ UNCHANGED <<ui, store, env, page, popupReset, popupv, clickAt, userDisabled>>

\* the continuation after `await chrome.storage.local.get`
loadPersistedDataResume ==
    /\ loadState = "fetched"
    /\ loadState' = "done"
    /\ loadData' = Absent
    /\ IF Has(loadData)
       THEN LET r == Reconcile(Val(loadData), now) IN
            /\ lastClickTime' = r.lastClickTime
            /\ clickCount' = r.clickCount
            /\ isEnabled' = r.isEnabled
            /\ since' = since \cup {"load"}
       ELSE UNCHANGED <<mem, since>>
    /\ UNCHANGED <<ui, store, env, page, popupReset, popupv, clickAt, userDisabled>>

---------------------------------------------------------------------------
(* chrome.storage.local serving the oldest request *)

StorageCompletes ==
    /\ storeQ # <<>>
    /\ storeQ' = Tail(storeQ)
    /\ IF Head(storeQ).op = "set"
       THEN /\ stored' = Some(Head(storeQ).data)
            /\ UNCHANGED loadv
       ELSE /\ loadState' = "fetched"
            /\ loadData' = stored
            /\ UNCHANGED stored
    /\ UNCHANGED <<mem, ui, storageAvailable, env, page, popupReset, popupv>>
    /\ UNCHANGED hist

\* variant: the request that threw is issued again
StorageFailsRetries ==
    /\ storeQ # <<>>
    /\ storeQ' = Append(Tail(storeQ), Head(storeQ))
    /\ UNCHANGED <<mem, ui, loadv, storageAvailable, stored, env, page,
                   popupReset, popupv>>
    /\ UNCHANGED hist

\* the oldest request throws: a write is lost (catch at line 290), a read
\* ends loadPersistedData in its catch (line 267)
StorageFails ==
    /\ storeQ # <<>>
    /\ storeQ' = Tail(storeQ)
    /\ IF Head(storeQ).op = "set"
       THEN UNCHANGED loadv
       ELSE /\ loadState' = "done"
            /\ UNCHANGED loadData
    /\ UNCHANGED <<mem, ui, storageAvailable, stored, env, page, popupReset, popupv>>
    /\ UNCHANGED hist

---------------------------------------------------------------------------
(* A page context: constructor, init, cleanup *)

\* loadPersistedData up to its await, for the request queue q
loadPersistedData(q) ==
    IF storageAvailable
    THEN /\ storeQ' = Append(q, [op |-> "get"])
         /\ loadState' = "requested"
    ELSE /\ storeQ' = q
         /\ loadState' = "done"

\* the read of an unloaded page is never delivered
WithoutReads(q) == SelectSeq(q, LAMBDA r : r.op = "set")

\* beforeunload runs cleanup; the next page's content script constructs a
\* new ClickTimer
Navigate ==
    /\ navs < MaxNavs
    /\ ~storageAvailable \/ Len(WithoutReads(storeQ)) < MaxPending
    /\ navs' = navs + 1
    /\ lastClickTime' = Absent
    /\ clickCount' = 0
    /\ isEnabled' = TRUE
    /\ SetUi([visualIndicator |-> Absent, indicatorTimeout |-> Absent,
              bodyIndicators |-> <<>>, timers |-> <<>>])
    /\ loadPersistedData(WithoutReads(storeQ))
    /\ loadData' = Absent
    /\ since' = since \cup {"construct"}
    /\ userDisabled' = FALSE
    /\ UNCHANGED <<storageAvailable, stored, now, ticks, page, popupReset, popupv,
                   clickAt>>

Tick ==
    /\ ticks < MaxTicks
    /\ \E d \in Steps : now' = now + d
    /\ ticks' = ticks + 1
    /\ UNCHANGED <<mem, ui, loadv, store, navs, page, popupReset, popupv>>
    /\ UNCHANGED hist

---------------------------------------------------------------------------
\* the content script has run in a loaded document and made its tracker
\* the popup has been opened: its constructor and init have run, and
\* getCurrentTabStats is at its first await
PopupConstructed ==
    /\ popupIsEnabled = TRUE
    /\ popupClickCount = 0
    /\ popupFetch = "storage"
    /\ popupData = Absent
    /\ popupCmds = <<>>
    /\ popupToggles = 0

Constructed ==
    /\ readyState = "complete"
    /\ listeners = {"load"}
    /\ clickTimer = TRUE
    /\ trackers = 1
    /\ loadCalls = 1

Init ==
    /\ lastClickTime = Absent
    /\ clickCount = 0
    /\ isEnabled = TRUE
    /\ visualIndicator = Absent
    /\ indicatorTimeout = Absent
    /\ bodyIndicators = <<>>
    /\ timers = <<>>
    /\ Constructed
    /\ popupReset = "idle"
    /\ PopupConstructed
    /\ storageAvailable \in BOOLEAN
    /\ stored = Absent
    /\ storeQ = IF storageAvailable THEN <<[op |-> "get"]>> ELSE <<>>
    /\ loadState = IF storageAvailable THEN "requested" ELSE "done"
    /\ loadData = Absent
    /\ now = StartTime
    /\ ticks = 0
    /\ navs = 0
    /\ clickAt = Absent
    /\ since = {"construct"}
    /\ userDisabled = FALSE

Click == \E e \in Events : handleClick(e)

\* the requests in flight are capped at n
Capped(n) == ~storageAvailable \/ Len(storeQ) < n

Next ==
    \/ CanIssue /\ Click
    \/ CanIssue /\ resetTimer
    \/ CanIssue /\ enable
    \/ CanIssue /\ disable
    \/ IndicatorTimeoutFires
    \/ loadPersistedDataResume
    \/ StorageCompletes
    \/ Navigate
    \/ Tick

\* one run of pages over a store whose requests all succeed
Spec == Init /\ [][Next]_vars

\* clicks, commands and page loads over a store whose requests may throw
NextFaulty ==
    \/ Capped(MaxWrites) /\ Click
    \/ Capped(MaxWrites) /\ resetTimer
    \/ Capped(MaxWrites) /\ enable
    \/ Capped(MaxWrites) /\ disable
    \/ loadPersistedDataResume
    \/ StorageCompletes
    \/ StorageFails
    \/ Navigate

SpecFaulty == Init /\ [][NextFaulty]_vars

---------------------------------------------------------------------------
(* The content script in its document (content.js:306-331): the script     *)
(* initializes at once or on DOMContentLoaded, with a fallback on load     *)

\* new ClickTimer(): the constructor's defaults, init attaching the click
\* listener and calling loadPersistedData
construct ==
    /\ lastClickTime' = Absent
    /\ clickCount' = 0
    /\ isEnabled' = TRUE
    /\ visualIndicator' = Absent
    /\ indicatorTimeout' = Absent
    /\ trackers' = trackers + 1
    /\ loadCalls' = loadCalls + 1
    /\ loadPersistedData(storeQ)
    /\ loadData' = Absent
    /\ since' = since \cup {"construct"}
    /\ userDisabled' = FALSE
    /\ UNCHANGED <<bodyIndicators, timers, storageAvailable, stored, env,
                   popupReset, popupv, clickAt>>

NoTracker ==
    UNCHANGED <<mem, ui, loadv, store, env, clickTimer, trackers, loadCalls,
                popupReset, popupv, hist>>

\* variant: the tracker is assigned to a local variable of the same name
initializeClickTimerShadowed ==
    IF ~clickTimer
    THEN construct /\ UNCHANGED clickTimer
    ELSE NoTracker

initializeClickTimer ==
    IF ~clickTimer
    THEN construct /\ clickTimer' = TRUE
    ELSE NoTracker

\* the top level of the content script
ContentScriptRuns ==
    /\ listeners = {}
    /\ UNCHANGED readyState
    /\ IF readyState = "loading"
       THEN /\ listeners' = {"DOMContentLoaded", "load"}
            /\ NoTracker
       ELSE /\ listeners' = {"load"}
            /\ initializeClickTimer

DOMContentLoadedFires ==
    /\ readyState = "loading"
    /\ readyState' = "interactive"
    /\ UNCHANGED listeners
    /\ IF "DOMContentLoaded" \in listeners
       THEN initializeClickTimer
       ELSE NoTracker

\* the load event; the fallback handler initializes if no tracker is set
WindowLoadFires ==
    /\ readyState = "interactive"
    /\ readyState' = "complete"
    /\ UNCHANGED listeners
    /\ IF "load" \in listeners /\ ~clickTimer
       THEN initializeClickTimer
       ELSE NoTracker

\* a document in any state of loading, before the content script runs
InitScript ==
    /\ lastClickTime = Absent
    /\ clickCount = 0
    /\ isEnabled = TRUE
    /\ visualIndicator = Absent
    /\ indicatorTimeout = Absent
    /\ bodyIndicators = <<>>
    /\ timers = <<>>
    /\ readyState \in {"loading", "interactive", "complete"}
    /\ listeners = {}
    /\ clickTimer = FALSE
    /\ trackers = 0
    /\ loadCalls = 0
    /\ popupReset = "idle"
    /\ PopupConstructed
    /\ storageAvailable \in BOOLEAN
    /\ stored = Absent
    /\ storeQ = <<>>
    /\ loadState = "done"
    /\ loadData = Absent
    /\ now = StartTime
    /\ ticks = 0
    /\ navs = 0
    /\ clickAt = Absent
    /\ since = {"construct"}
    /\ userDisabled = FALSE

\* a click reaches the listeners that are attached
NextScript ==
    \/ ContentScriptRuns
    \/ DOMContentLoadedFires
    \/ WindowLoadFires
    \/ trackers > 0 /\ Capped(MaxWrites) /\ Click
    \/ trackers > 0 /\ Capped(MaxWrites) /\ disable
    \/ trackers > 0 /\ Capped(MaxWrites) /\ enable
    \/ loadPersistedDataResume
    \/ StorageCompletes

SpecScript == InitScript /\ [][NextScript]_vars

---------------------------------------------------------------------------
(* The display over time: the clock reaches the due time of the next       *)
(* pending timer, and a timer that is due fires                            *)

RECURSIVE Earliest(_)
Earliest(ts) ==
    IF Len(ts) = 1 THEN ts[1]
    ELSE LET m == Earliest(Tail(ts)) IN IF ts[1] < m THEN ts[1] ELSE m

TimePasses ==
    /\ timers # <<>>
    /\ now < Earliest(timers)
    /\ now' = Earliest(timers)
    /\ UNCHANGED <<mem, ui, loadv, store, ticks, navs, page, popupReset, popupv>>
    /\ UNCHANGED hist

NextDisplay ==
    \/ CanIssue /\ Click
    \/ CanIssue /\ enable
    \/ CanIssue /\ disable
    \/ IndicatorTimeoutFires
    \/ TimePasses
    \/ Tick
    \/ loadPersistedDataResume
    \/ StorageCompletes

\* time goes on, and a callback that is due is run
SpecDisplay ==
    /\ Init
    /\ [][NextDisplay]_vars
    /\ WF_vars(TimePasses)
    /\ WF_vars(IndicatorTimeoutFires)

---------------------------------------------------------------------------
\* clicks and the enable / disable commands over time, on one page
NextToggle ==
    \/ Capped(MaxWrites) /\ Click
    \/ Capped(MaxWrites) /\ enable
    \/ Capped(MaxWrites) /\ disable
    \/ Tick
    \/ loadPersistedDataResume
    \/ StorageCompletes

SpecToggle == Init /\ [][NextToggle]_vars

---------------------------------------------------------------------------
(* The popup's Reset (popup.js handleReset): the stored record is removed,  *)
(* and when the removal has completed the reset command is run in the page. *)
(* The popup is another context: its removal is served independently of the *)
(* requests of the page, which are served in the order the page issued them *)

popupHandleReset ==
    /\ popupReset = "idle"
    /\ popupReset' = "removing"
    /\ popupClickCount' = 0
    /\ UNCHANGED <<popupIsEnabled, popupFetch, popupData, popupToggles,
                   popupCmds>>
    /\ UNCHANGED <<mem, ui, loadv, store, env, page, hist>>

popupRemoveCompletes ==
    /\ popupReset = "removing"
    /\ popupReset' = "removed"
    /\ stored' = Absent
    /\ UNCHANGED <<mem, ui, loadv, storageAvailable, storeQ, env, page, hist,
                   popupv>>

\* executeInContentScript('reset') runs window.clickTimer.resetTimer()
executeReset == popupReset = "removed" /\ resetTimer

\* clicks and commands with up to MaxWrites requests in flight, the reset
\* command coming from the popup
NextStore ==
    \/ Capped(MaxWrites) /\ Click
    \/ Capped(MaxWrites) /\ enable
    \/ Capped(MaxWrites) /\ disable
    \/ popupHandleReset
    \/ popupRemoveCompletes
    \/ Capped(MaxWrites) /\ executeReset
    \/ loadPersistedDataResume
    \/ StorageCompletes

SpecStore == Init /\ [][NextStore]_vars

---------------------------------------------------------------------------
(* The popup's state (popup.js getCurrentTabStats, handleToggle). The      *)
(* popup reads the stored record, then the tracker's getStats, each value  *)
(* being applied when the awaited call resumes; a toggle flips the popup's *)
(* own isEnabled at once and sends the command to the page.                *)

\* the toggle button is clicked
popupHandleToggle ==
    /\ popupToggles < MaxToggles
    /\ popupToggles' = popupToggles + 1
    /\ popupIsEnabled' = ~popupIsEnabled
    /\ popupCmds' = Append(popupCmds,
                           IF popupIsEnabled' THEN "enable" ELSE "disable")
    /\ UNCHANGED <<popupClickCount, popupFetch, popupData>>
    /\ UNCHANGED <<mem, ui, loadv, store, env, page, popupReset, hist>>

\* executeInContentScript runs the oldest command in the page
executeToggle ==
    /\ popupCmds # <<>>
    /\ IF Head(popupCmds) = "enable" THEN enable ELSE disable

\* chrome.storage.local.get of the popup is served
popupStorageGetCompletes ==
    /\ popupFetch = "storage"
    /\ popupFetch' = "read"
    /\ popupData' = stored
    /\ UNCHANGED <<popupIsEnabled, popupClickCount, popupCmds, popupToggles>>
    /\ UNCHANGED <<mem, ui, loadv, store, env, page, popupReset, hist>>

\* getCurrentTabStats resumes with the record and goes on to executeScript
popupStorageGetResumes ==
    /\ popupFetch = "read"
    /\ popupFetch' = "script"
    /\ popupData' = Absent
    /\ IF Has(popupData)
       THEN LET persistedData == Val(popupData) IN
            /\ popupClickCount' =
                   IF Truthy(persistedData.clickCount)
                   THEN Val(persistedData.clickCount) ELSE 0
            /\ popupIsEnabled' =
                   IF Has(persistedData.isEnabled)
                   THEN Val(persistedData.isEnabled) ELSE TRUE
       ELSE UNCHANGED <<popupIsEnabled, popupClickCount>>
    /\ UNCHANGED <<popupCmds, popupToggles>>
    /\ UNCHANGED <<mem, ui, loadv, store, env, page, popupReset, hist>>

getStats == [clickCount |-> clickCount, lastClickTime |-> lastClickTime,
             isEnabled |-> isEnabled]

\* the injected function runs window.clickTimer.getStats() in the page
popupGetStatsRuns ==
    /\ popupFetch = "script"
    /\ popupFetch' = "stats"
    /\ popupData' = IF clickTimer THEN Some(getStats) ELSE Absent
    /\ UNCHANGED <<popupIsEnabled, popupClickCount, popupCmds, popupToggles>>
    /\ UNCHANGED <<mem, ui, loadv, store, env, page, popupReset, hist>>

\* getCurrentTabStats resumes with the result of executeScript
popupGetStatsResumes ==
    /\ popupFetch = "stats"
    /\ popupFetch' = "done"
    /\ popupData' = Absent
    /\ IF Has(popupData)
       THEN LET stats == Val(popupData) IN
            /\ popupClickCount' = stats.clickCount
            /\ popupIsEnabled' = stats.isEnabled
       ELSE UNCHANGED <<popupIsEnabled, popupClickCount>>
    /\ UNCHANGED <<popupCmds, popupToggles>>
    /\ UNCHANGED <<mem, ui, loadv, store, env, page, popupReset, hist>>

\* the popup's toggles and its stats fetch, with clicks on the page
NextPopup ==
    \/ popupHandleToggle
    \/ Capped(MaxWrites) /\ executeToggle
    \/ popupStorageGetCompletes
    \/ popupStorageGetResumes
    \/ popupGetStatsRuns
    \/ popupGetStatsResumes
    \/ Capped(MaxWrites) /\ Click
    \/ loadPersistedDataResume
    \/ StorageCompletes

SpecPopup == Init /\ [][NextPopup]_vars

---------------------------------------------------------------------------
(* Reconciliation of any record: a page starts over a store that holds a   *)
(* record with any fields, absent ones and timestamps on either side of    *)
(* the thresholds included                                                 *)

LoadNow == StartTime + 500000

\* ages (LoadNow - value) of the record's lastClickTime and timestamp
ClickAges == {0 - 1, 0, 1, 2000, 299999, 300000, 400000}
SaveAges  == {1000, 3000, 4999, 5000, 6000}

LoadRecords ==
    [lastClickTime : {Absent} \cup {Some(LoadNow - a) : a \in ClickAges},
     timestamp     : {Absent} \cup {Some(LoadNow - a) : a \in SaveAges},
     clickCount    : {Absent} \cup {Some(n) : n \in 0..MaxClicks},
     isEnabled     : {Absent, Some(TRUE), Some(FALSE)}]

InitLoad ==
    /\ lastClickTime = Absent
    /\ clickCount = 0
    /\ isEnabled = TRUE
    /\ visualIndicator = Absent
    /\ indicatorTimeout = Absent
    /\ bodyIndicators = <<>>
    /\ timers = <<>>
    /\ Constructed
    /\ popupReset = "idle"
    /\ PopupConstructed
    /\ storageAvailable = TRUE
    /\ stored \in {Some(r) : r \in LoadRecords}
    /\ storeQ = <<[op |-> "get"]>>
    /\ loadState = "requested"
    /\ loadData = Absent
    /\ now = LoadNow
    /\ ticks = 0
    /\ navs = 0
    /\ clickAt = Absent
    /\ since = {"construct"}
    /\ userDisabled = FALSE

NextLoad ==
    \/ CanIssue /\ Click
    \/ StorageCompletes
    \/ loadPersistedDataResume

SpecLoad == InitLoad /\ [][NextLoad]_vars

---------------------------------------------------------------------------
(* Reading a display text back *)

IndexOf(seq, c) ==
    CHOOSE i \in 1..Len(seq) : seq[i] = c /\ \A j \in 1..(i - 1) : seq[j] # c

RECURSIVE Number(_)
Number(ds) ==
    IF ds = <<>> THEN 0
    ELSE Number(SubSeq(ds, 1, Len(ds) - 1)) * 10 + DigitVal(ds[Len(ds)])

\* "#<sequenceNumber>: <message>"
SequenceNumberOf(text) == Number(SubSeq(text, 2, IndexOf(text, ":") - 1))
MessageOf(text) == SubSeq(text, IndexOf(text, ":") + 2, Len(text))

IsInterval(msg) ==
    /\ msg[Len(msg)] = "s"
    /\ \E i \in 1..Len(msg) : msg[i] = "."

\* the milliseconds an interval message "<seconds>.<millis>s" stands for
MillisOf(msg) ==
    LET neg  == msg[1] = "-"
        body == IF neg THEN Tail(msg) ELSE msg
        dot  == IndexOf(body, ".")
        abs  == Number(SubSeq(body, 1, dot - 1)) * 1000
                  + Number(SubSeq(body, dot + 1, Len(body) - 1))
    IN  IF neg THEN 0 - abs ELSE abs

ReportsInterval(ind, ms) ==
    /\ Has(ind)
    /\ IsInterval(MessageOf(Val(ind)))
    /\ MillisOf(MessageOf(Val(ind))) = ms

ReportsFirstClick(ind) ==
    /\ Has(ind)
    /\ MessageOf(Val(ind)) = FirstClickMessage

---------------------------------------------------------------------------
(* Steps, as the properties name them *)

AcceptedClickStep == \E e \in Events : Accepted(e) /\ handleClick(e)

\* loadPersistedData's continuation runs; it found a record
ResumeStep == loadState = "fetched" /\ loadState' = "done"
RecordFound == ResumeStep /\ Has(loadData)

---------------------------------------------------------------------------
(* C1: clickCount is the number of clicks accepted since the last reset.   *)
(* Stated on the steps that the count is made of: an accepted click makes  *)
(* clickCount one more than it was, a reset makes it 0, and enable and     *)
(* disable leave it as it is.                                              *)
C1_ClickCountIsAcceptedClicks ==
    [][ /\ AcceptedClickStep => clickCount' = clickCount + 1
        /\ resetTimer => clickCount' = 0
        /\ (enable \/ disable) => clickCount' = clickCount ]_vars

(* C2: the second of two consecutive accepted clicks of a page, at         *)
(* t1 < t2, reports the interval t2 - t1 ms, whatever happened between.    *)
C2_IntervalBetweenConsecutiveClicks ==
    [][ ( /\ AcceptedClickStep
          /\ Has(clickAt)
          /\ "construct" \notin since
          /\ Val(clickAt) < now )
        => ReportsInterval(visualIndicator', now - Val(clickAt)) ]_vars

(* C2 as amended: it reports t2 - t1 when neither a reset nor a            *)
(* reconciliation that found a record ran between the two clicks; after    *)
(* one of them it reports against the lastClickTime they left: a first     *)
(* click when it is absent, the interval since it otherwise.               *)
C2_IntervalUnlessResetOrLoad ==
    [][ ( /\ AcceptedClickStep
          /\ Has(clickAt)
          /\ "construct" \notin since
          /\ Val(clickAt) < now )
        => IF since = {}
           THEN ReportsInterval(visualIndicator', now - Val(clickAt))
           ELSE IF Has(lastClickTime)
                THEN ReportsInterval(visualIndicator',
                                     now - Val(lastClickTime))
                ELSE ReportsFirstClick(visualIndicator') ]_vars

\* a second click 127 ms after the first one has reported 0.127s
C2_Witness ==
    /\ clickCount = 2
    /\ since = {}
    /\ clickAt = Some(now)
    /\ ReportsInterval(visualIndicator, 127)

(* C3: right after resetTimer, clickCount is 0 and lastClickTime absent,   *)
(* from every state.                                                       *)
C3_ResetClears ==
    [][ resetTimer => (clickCount' = 0 /\ lastClickTime' = Absent) ]_vars

\* a reset that ran after a click of this page, reconciliation still pending
C3_Witness ==
    /\ "reset" \in since
    /\ "construct" \notin since
    /\ Has(clickAt)
    /\ loadState # "done"
    /\ clickCount = 0
    /\ lastClickTime = Absent

(* C4: between a disable and the next enable a click changes neither       *)
(* clickCount nor lastClickTime, shows nothing and writes nothing.         *)
C4_NoClickAcceptedWhileDisabled ==
    [][ (userDisabled /\ Click)
        => UNCHANGED <<clickCount, lastClickTime, visualIndicator,
                       indicatorTimeout, storeQ>> ]_vars

---------------------------------------------------------------------------
(* Reconciliation, as section 4.1 of the specification states it *)

SavedAge(d) == now - Val(d.timestamp)
ClickAge(d) == now - Val(d.lastClickTime)

(* C5: a record saved less than 5000 ms ago whose lastClickTime is between *)
(* 0 and 300000 ms old (exclusive) has its lastClickTime adopted; a record *)
(* saved 5000 ms ago or more leaves lastClickTime absent.                  *)
C5_AdoptRecentSaneClick ==
    [][ RecordFound =>
          LET d == Val(loadData) IN
          /\ ( /\ Has(d.timestamp) /\ SavedAge(d) < 5000
               /\ Has(d.lastClickTime)
               /\ 0 < ClickAge(d) /\ ClickAge(d) < 300000 )
             => lastClickTime' = d.lastClickTime
          /\ (Has(d.timestamp) /\ SavedAge(d) >= 5000)
             => lastClickTime' = Absent ]_vars

\* saved 3000 ms ago, clicked 2000 ms ago: adopted
C5_Witness ==
    /\ loadState = "done"
    /\ Has(stored)
    /\ Val(stored).timestamp = Some(now - 3000)
    /\ Val(stored).lastClickTime = Some(now - 2000)
    /\ lastClickTime = Some(now - 2000)

(* C6: with a recent save (less than 5000 ms ago) a lastClickTime that is  *)
(* 300000 ms old or more, or not in the past, is not adopted.              *)
C6_StaleClickCleared ==
    [][ RecordFound =>
          LET d == Val(loadData) IN
          ( /\ Has(d.timestamp) /\ SavedAge(d) < 5000
            /\ Has(d.lastClickTime)
            /\ (ClickAge(d) >= 300000 \/ ClickAge(d) <= 0) )
          => lastClickTime' = Absent ]_vars

\* saved 1000 ms ago, clicked 400000 ms ago: not adopted, and the
\* lastClickTime of an early click is cleared
C6_Witness ==
    /\ loadState = "done"
    /\ Has(clickAt)
    /\ Has(stored)
    /\ Val(stored).timestamp = Some(now - 1000)
    /\ Val(stored).lastClickTime = Some(now - 400000)
    /\ lastClickTime = Absent

(* C7: whenever a record is found, clickCount and isEnabled become the     *)
(* record's (0 and TRUE for an absent field), whether or not its           *)
(* lastClickTime is adopted.                                               *)
C7_CountAndEnabledAdopted ==
    [][ RecordFound =>
          LET d == Val(loadData) IN
          /\ clickCount' = (IF Has(d.clickCount) THEN Val(d.clickCount) ELSE 0)
          /\ isEnabled' = (IF Has(d.isEnabled) THEN Val(d.isEnabled)
                           ELSE TRUE) ]_vars

\* a stale record's count and disabled state are adopted, its click is not
C7_Witness ==
    /\ loadState = "done"
    /\ Has(stored)
    /\ Val(stored).timestamp = Some(now - 6000)
    /\ Val(stored).lastClickTime = Some(now - 2000)
    /\ Val(stored).clickCount = Some(2)
    /\ Val(stored).isEnabled = Some(FALSE)
    /\ clickCount = 2
    /\ ~isEnabled
    /\ lastClickTime = Absent

\* what reconciliation with record d leaves in the fields, by section 4.1
Reconciled(d) ==
    [lastClickTime |->
        IF /\ Has(d.timestamp) /\ SavedAge(d) < 5000
           /\ Has(d.lastClickTime)
           /\ 0 < ClickAge(d) /\ ClickAge(d) < 300000
        THEN d.lastClickTime ELSE Absent,
     clickCount |-> IF Has(d.clickCount) THEN Val(d.clickCount) ELSE 0,
     isEnabled  |-> IF Has(d.isEnabled) THEN Val(d.isEnabled) ELSE TRUE]

(* C8: clicks are handled before reconciliation resolves: until it does,   *)
(* a page that took no command is enabled whatever the record says, and    *)
(* its first accepted click is a first click with clickCount 1; when       *)
(* reconciliation then finds a record, the fields that click set become    *)
(* the reconciled ones.                                                    *)
C8_EarlyClickThenOverwritten ==
    [][ /\ (loadState # "done" /\ AcceptedClickStep /\ ~Has(clickAt))
           => /\ isEnabled
              /\ clickCount' = 1
              /\ lastClickTime' = Some(now)
              /\ ReportsFirstClick(visualIndicator')
              /\ SequenceNumberOf(Val(visualIndicator')) = 1
        /\ (RecordFound /\ Has(clickAt))
           => [lastClickTime |-> lastClickTime', clickCount |-> clickCount',
               isEnabled |-> isEnabled'] = Reconciled(Val(loadData)) ]_vars

\* an early click was accepted although the record said disabled; the
\* reconciliation that followed replaced what it had set
C8_Witness ==
    /\ loadState = "done"
    /\ Has(clickAt)
    /\ "load" \in since
    /\ ~isEnabled
    /\ clickCount = 2
    /\ lastClickTime = Absent
    /\ Has(visualIndicator)

---------------------------------------------------------------------------
(* C9: clickCount = 0 implies that lastClickTime is absent.                *)
C9_ZeroCountNoTimestamp == clickCount = 0 => lastClickTime = Absent

\* reconciliation resolved after an early click and left the count at 0
C9_Witness ==
    /\ clickCount = 0
    /\ lastClickTime = Absent
    /\ Has(clickAt)
    /\ since = {"load"}

(* C10: lastClickTime, when present, is not later than the latest accepted *)
(* click (of this page or of the page that persisted it), so no interval   *)
(* shown is negative.                                                      *)
C10_TimestampNotAfterLatestClick ==
    /\ Has(lastClickTime) =>
         /\ Has(clickAt)
         /\ Val(lastClickTime) <= Val(clickAt)
         /\ Val(clickAt) <= now
    /\ (Has(visualIndicator) /\ IsInterval(MessageOf(Val(visualIndicator))))
         => MillisOf(MessageOf(Val(visualIndicator))) >= 0

\* a lastClickTime adopted from the page before, its click 127 ms ago
C10_Witness ==
    /\ "construct" \in since
    /\ "load" \in since
    /\ Has(lastClickTime)
    /\ lastClickTime = clickAt
    /\ now - Val(lastClickTime) = 127


---------------------------------------------------------------------------
\* an accepted click or a command runs
MutationStep == AcceptedClickStep \/ resetTimer \/ enable \/ disable

(* C11: every accepted click, reset, enable and disable issues one write,  *)
(* placed behind the writes still in flight, whose record holds the        *)
(* lastClickTime, clickCount and isEnabled that the operation leaves in    *)
(* memory; the writes still in flight keep the record they were issued     *)
(* with. With the storage API missing there is no store to write to and    *)
(* nothing is issued.                                                      *)
C11_WriteIssuedPerMutation ==
    [][ MutationStep =>
          IF storageAvailable
          THEN storeQ' = Append(storeQ,
                   [op |-> "set",
                    data |-> Record(lastClickTime', clickCount', isEnabled',
                                    now)])
          ELSE storeQ' = storeQ ]_vars

\* the write of a click is still in flight behind it the write of the reset
\* that followed: the first holds the click, memory holds the reset
C11_Witness ==
    /\ Len(storeQ) = 2
    /\ storeQ[1] = [op |-> "set",
                    data |-> Record(Some(now), 1, TRUE, now)]
    /\ storeQ[2] = [op |-> "set",
                    data |-> Record(Absent, 0, TRUE, now)]
    /\ clickCount = 0
    /\ lastClickTime = Absent
---------------------------------------------------------------------------
\* the count and the timestamp an accepted click leaves, from the fields alone
AfterClick ==
    [clickCount |-> IF Has(lastClickTime) THEN clickCount + 1 ELSE 1,
     lastClickTime |-> Some(now),
     isEnabled |-> isEnabled]

(* C12: a storage request that throws changes nothing in memory or on      *)
(* display, leaves the store as it was and is not issued again; a read     *)
(* that throws ends reconciliation with the fields as they are, which is   *)
(* what a read that finds no record does. Clicks and commands go on         *)
(* setting clickCount, lastClickTime and isEnabled from the fields alone,   *)
(* and with the storage API missing no request is ever issued and           *)
(* reconciliation is over at once.                                          *)
C12_StorageErrorsNonFatal ==
    /\ [][ StorageFails =>
             /\ UNCHANGED <<mem, ui, stored>>
             /\ storeQ' = Tail(storeQ)
             /\ Head(storeQ).op = "get" => loadState' = "done" ]_vars
    /\ [][ (ResumeStep /\ ~Has(loadData)) => UNCHANGED mem ]_vars
    /\ [][ AcceptedClickStep => Fields' = AfterClick ]_vars
    /\ [][ resetTimer =>
             Fields' = [clickCount |-> 0, lastClickTime |-> Absent,
                        isEnabled |-> isEnabled] ]_vars
    /\ [][ enable => Fields' = [Fields EXCEPT !.isEnabled = TRUE] ]_vars
    /\ [][ disable => Fields' = [Fields EXCEPT !.isEnabled = FALSE] ]_vars
    /\ [](~storageAvailable =>
             storeQ = <<>> /\ stored = Absent /\ loadState = "done")

\* the read of the first page and the writes of two clicks have all thrown
\* (nothing is stored, nothing is in flight), and both clicks were counted
C12_Witness ==
    /\ storageAvailable
    /\ navs = 0
    /\ loadState = "done"
    /\ stored = Absent
    /\ storeQ = <<>>
    /\ clickCount = 2
    /\ lastClickTime = Some(now)
    /\ "load" \notin since

---------------------------------------------------------------------------
(* C13: the page holds at most one indicator element and at most one       *)
(* pending auto-hide timer, and they are the ones the tracker's fields     *)
(* name: a display event leaves its own indicator and timer and nothing of *)
(* the display before it.                                                  *)
C13_AtMostOneIndicator ==
    /\ Len(bodyIndicators) <= 1
    /\ Len(timers) <= 1
    /\ bodyIndicators =
          (IF Has(visualIndicator) THEN <<Val(visualIndicator)>> ELSE <<>>)
    /\ timers =
          (IF Has(indicatorTimeout) THEN <<Val(indicatorTimeout)>> ELSE <<>>)

\* the second click's display has taken the place of the first click's
C13_Witness ==
    /\ clickCount = 2
    /\ clickAt = Some(now)
    /\ now = StartTime + 127
    /\ bodyIndicators = <<IndicatorText(2, IntervalMessage(127))>>
    /\ timers = <<now + IndicatorDuration>>

---------------------------------------------------------------------------
(* C14: a timer removes the indicator on display only when 2000 ms have    *)
(* passed since the latest display event (a timer started by an earlier    *)
(* event never removes the indicator of a later one), and an indicator on  *)
(* display is eventually removed.                                          *)
C14_RemovedAfterDuration ==
    /\ [][ (IndicatorTimeoutFires /\ bodyIndicators # bodyIndicators')
             => /\ Has(clickAt)
                /\ now >= Val(clickAt) + 2000
                /\ bodyIndicators' = <<>> ]_vars
    /\ (bodyIndicators # <<>>) ~> (bodyIndicators = <<>>)

\* the second click, 127 ms after the first, restarted the timer; the clock
\* is at 2000 ms after the second click, nothing was written after that
\* click's record, and the indicator is gone
C14_Witness ==
    /\ clickCount = 2
    /\ clickAt = Some(StartTime + 127)
    /\ now = StartTime + 127 + 2000
    /\ storageAvailable
    /\ storeQ = <<>>
    /\ stored = Some(Record(clickAt, 2, TRUE, StartTime + 127))
    /\ isEnabled
    /\ bodyIndicators = <<>>
    /\ timers = <<>>

---------------------------------------------------------------------------
(* C15: right after resetTimer and right after disable the page holds no   *)
(* indicator and no pending auto-hide timer and the tracker's two display  *)
(* fields are empty; and a step that begins and ends with the tracker      *)
(* disabled puts no indicator on the page.                                 *)
C15_NoDisplayAfterResetOrDisable ==
    /\ [][ (resetTimer \/ disable)
             => /\ bodyIndicators' = <<>>
                /\ timers' = <<>>
                /\ visualIndicator' = Absent
                /\ indicatorTimeout' = Absent ]_vars
    /\ [][ (~isEnabled /\ ~isEnabled')
             => (bodyIndicators' = bodyIndicators \/ bodyIndicators' = <<>>)
       ]_vars

\* the first page's only click put up an indicator, no time has passed, and
\* after disable nothing is on display
C15_Witness ==
    /\ navs = 0
    /\ userDisabled
    /\ ~isEnabled
    /\ clickCount = 1
    /\ Has(clickAt)
    /\ lastClickTime = clickAt
    /\ bodyIndicators = <<>>
    /\ timers = <<>>
    /\ visualIndicator = Absent
    /\ indicatorTimeout = Absent

---------------------------------------------------------------------------
(* C16: the display of an accepted click carries the clickCount the click  *)
(* leaves as its sequence number; it is the first-click label, with no     *)
(* interval, exactly when lastClickTime was absent at the click, and else  *)
(* the interval since lastClickTime. On fresh state the first click shows  *)
(* "#1: First click recorded", and a second click 127 ms later shows       *)
(* "#2: 0.127s" and leaves clickCount 2.                                   *)
C16_SequenceNumberAndLabel ==
    [][ AcceptedClickStep =>
          /\ Has(visualIndicator')
          /\ SequenceNumberOf(Val(visualIndicator')) = clickCount'
          /\ ReportsFirstClick(visualIndicator') <=> ~Has(lastClickTime)
          /\ ReportsFirstClick(visualIndicator')
                => ~IsInterval(MessageOf(Val(visualIndicator')))
          /\ Has(lastClickTime)
                => ReportsInterval(visualIndicator',
                                   now - Val(lastClickTime))
          /\ (clickCount = 0 /\ ~Has(lastClickTime))
                => /\ visualIndicator'
                        = Some(<<"#", "1", ":", " ", "First click recorded">>)
                   /\ clickCount' = 1
          /\ (clickCount = 1 /\ lastClickTime = Some(now - 127))
                => /\ visualIndicator'
                        = Some(<<"#", "2", ":", " ",
                                 "0", ".", "1", "2", "7", "s">>)
                   /\ clickCount' = 2 ]_vars

\* the scenario: two clicks on the first page, 127 ms apart
C16_Witness ==
    /\ navs = 0
    /\ "load" \notin since
    /\ clickAt = Some(StartTime + 127)
    /\ lastClickTime = clickAt
    /\ clickCount = 2
    /\ visualIndicator
         = Some(<<"#", "2", ":", " ", "0", ".", "1", "2", "7", "s">>)

---------------------------------------------------------------------------
\* the pointer is within 20 units of the right or of the bottom edge
InMargin(e) ==
    \/ InnerWidth - e.clientX <= 20
    \/ InnerHeight - e.clientY <= 20

(* C17: a click whose pointer is within 20 units of the right or bottom    *)
(* edge of the viewport, the position exactly 20 units from the edge       *)
(* included, is rejected: handling it changes nothing, whether the tracker *)
(* is enabled or not.                                                      *)
C17_MarginClickRejected ==
    [][ \A e \in Events :
           (InMargin(e) /\ handleClick(e)) => UNCHANGED vars ]_vars

(* C18: a click whose target is the indicator or inside it, or is not      *)
(* inside document.body, is never accepted; and handling a click that is   *)
(* not accepted changes no field and nothing on display and issues no      *)
(* write.                                                                  *)
C18_RejectedClickChangesNothing ==
    /\ [](\A e \in Events :
             (e.target.inIndicator \/ ~e.target.inBody) => ~Accepted(e))
    /\ [][ \A e \in Events :
             (~Accepted(e) /\ handleClick(e))
                => UNCHANGED <<mem, ui, storeQ, stored>> ]_vars

\* an indicator is on display and the tracker is enabled with a click
\* counted: the state a click on the indicator is handled in, and is left in
C18_Witness ==
    /\ isEnabled
    /\ clickCount = 1
    /\ bodyIndicators # <<>>
    /\ storageAvailable
    /\ storeQ = <<>>
    /\ \E e \in Events :
          /\ e.target.inIndicator
          /\ e.clientX = ClearPosition[1]
          /\ e.clientY = ClearPosition[2]
          /\ ~Accepted(e)

---------------------------------------------------------------------------
\* the record the store holds once the requests in flight have been served
Settled ==
    LET sets == SelectSeq(storeQ, LAMBDA r : r.op = "set")
    IN  IF sets = <<>> THEN stored ELSE Some(sets[Len(sets)].data)

NoClickData(o) ==
    \/ o = Absent
    \/ Val(o).clickCount = Some(0) /\ Val(o).lastClickTime = Absent

---------------------------------------------------------------------------
(* C20: in a page context at most one tracker is constructed, so at most   *)
(* one click listener is attached and loadPersistedData is called at most  *)
(* once, whichever of the immediate initialization, the DOMContentLoaded   *)
(* handler and the load fallback run, in any order; and once the script    *)
(* has run in a document that is no longer loading there is exactly one    *)
(* tracker and reconciliation has been started exactly once.               *)
C20_OneTrackerOneReconciliation ==
    /\ trackers <= 1
    /\ loadCalls = trackers
    /\ clickTimer <=> trackers = 1
    /\ (listeners # {} /\ readyState # "loading")
          => (trackers = 1 /\ loadCalls = 1)

\* the script ran while the document was loading; DOMContentLoaded and load
\* have both fired, and a click has been counted once
C20_Witness ==
    /\ listeners = {"DOMContentLoaded", "load"}
    /\ readyState = "complete"
    /\ trackers = 1
    /\ loadCalls = 1
    /\ loadState = "done"
    /\ clickCount = 1
    /\ clickAt = Some(now)

---------------------------------------------------------------------------
(* C21: enable sets isEnabled and changes neither clickCount nor           *)
(* lastClickTime nor the display; disable clears isEnabled and the         *)
(* display and changes neither clickCount nor lastClickTime; a click       *)
(* while disabled changes nothing. So with only enable, disable and        *)
(* clicks between two accepted clicks, the second reports the interval     *)
(* since the first and makes clickCount one more.                          *)
C21_ToggleKeepsCountAndTimestamp ==
    /\ [][ enable => /\ isEnabled'
                     /\ UNCHANGED <<clickCount, lastClickTime, ui>> ]_vars
    /\ [][ disable => /\ ~isEnabled'
                      /\ UNCHANGED <<clickCount, lastClickTime>>
                      /\ bodyIndicators' = <<>>
                      /\ visualIndicator' = Absent ]_vars
    /\ [][ (~isEnabled /\ Click) => UNCHANGED <<mem, ui, storeQ>> ]_vars
    /\ [][ (AcceptedClickStep /\ Has(clickAt))
             => /\ ReportsInterval(visualIndicator', now - Val(clickAt))
                /\ clickCount' = clickCount + 1 ]_vars

\* a click, then disable (its write is stored), 127 ms, then enable and a
\* second click (their writes are in flight): the second click shows 0.127 s
C21_Witness ==
    /\ now = StartTime + 127
    /\ stored = Some(Record(Some(StartTime), 1, FALSE, StartTime))
    /\ storeQ = <<[op |-> "set",
                   data |-> Record(Some(StartTime), 1, TRUE, now)],
                  [op |-> "set",
                   data |-> Record(Some(now), 2, TRUE, now)]>>
    /\ clickCount = 2
    /\ visualIndicator = Some(IndicatorText(2, IntervalMessage(127)))

---------------------------------------------------------------------------
\* no load and no write is pending, and no Reset of the popup is under way
Quiescent ==
    /\ storageAvailable
    /\ storeQ = <<>>
    /\ loadState = "done"
    /\ popupReset = "idle"

(* C22: with storage available, whenever no load and no write is pending   *)
(* (and no popup Reset is under way), a persisted record has the           *)
(* tracker's lastClickTime, clickCount and isEnabled.                      *)
C22_PersistedEqualsMemory ==
    (Quiescent /\ Has(stored))
        => /\ Val(stored).lastClickTime = lastClickTime
           /\ Val(stored).clickCount = Some(clickCount)
           /\ Val(stored).isEnabled = Some(isEnabled)

---------------------------------------------------------------------------
\* a toggle of the popup has been delivered, none is on its way, and the
\* popup's storage read and getStats have both been applied
ToggleDeliveredReadsDone ==
    /\ popupToggles > 0
    /\ popupCmds = <<>>
    /\ popupFetch = "done"

(* C23: once a popup toggle has been delivered to the page and the popup's *)
(* storage read and getStats have completed, the enabled state the popup   *)
(* shows equals the tracker's isEnabled.                                   *)
C23_PopupShowsTrackerState ==
    ToggleDeliveredReadsDone => popupIsEnabled = isEnabled

====
